---- MODULE Spec2Model ----
(***************************************************************************)
(* Model of the authentication pipeline of gosample/sso:                   *)
(*   server/auth_handler.go   CreateUserAuthenticationHandler, Auth        *)
(*   (user handler file)      UserImpl.CanUse, ipRange, IPRange,           *)
(*                            dbUserHandler.toUser / ReadUser / LockUser   *)
(***************************************************************************)
EXTENDS Integers, Sequences, FiniteSets, TLC

VARIABLES
    store,      \* the users table of the backing store: a sequence of rows
    now,        \* the wall clock (time.Now), in ticks; tick 0 is the zero time.Time
    cfg,        \* the fields of dbUserHandler and userAuthenticationHandler
    pc,         \* per caller: the position of its Auth call
    args,       \* per caller: the arguments of its Auth call
    users,      \* per caller: what ReadUser returned to it
    result,     \* per caller: what Auth returned
    trace,      \* per caller: the steps its Auth call performed, in order
    unit,       \* the fixture of the specifications that exercise one function
    seen        \* per caller: the store contents and the store fault its lookup met

vars == <<store, now, cfg, pc, args, users, result, trace, unit, seen>>

(***************************************************************************)
(* Bounds.                                                                 *)
(***************************************************************************)
\* IPv4 ordinals are 0..MaxIP
MaxIP == 2
\* the clock runs over 1..MaxTime
MaxTime == 3
\* the query returns at most MaxRows rows
MaxRows == 2
\* a block list holds at most MaxList entries
MaxList == 2
\* a query text holds at most MaxSQL characters
MaxSQL == 5

(***************************************************************************)
(* Addresses.  An address text is one of: an IPv4 literal (with its 32-bit *)
(* big-endian ordinal v), an IPv6 literal, or text that is no IP address.  *)
(***************************************************************************)
V4(n) == [k |-> "v4", v |-> n]
V6Addr == [k |-> "v6", v |-> 0]
BadAddr == [k |-> "bad", v |-> 0]
NoIP == [k |-> "nil", v |-> 0]

Ordinals == 0..MaxIP
Addresses == {V4(n) : n \in Ordinals} \cup {V6Addr, BadAddr}

\* net.ParseIP: nil for text that is no IP address
ParseIP(s) == IF s.k = "bad" THEN NoIP ELSE s

\* net.IP.To4: nil for an address that is not IPv4
To4(ip) == IF ip.k = "v4" THEN ip ELSE NoIP

\* binary.BigEndian.Uint32 of a 4-byte address
Uint32(ip) == ip.v

(***************************************************************************)
(* IPChecker: ipRange and net.IPNet.                                       *)
(***************************************************************************)
NoChecker == [t |-> "nil", a |-> 0, b |-> 0]

\* ipRange.Contains with both bounds required (the variant the code does not have)
ContainsBothBounds(r, ip) ==
    IF To4(ip) = NoIP THEN FALSE
    ELSE r.a <= Uint32(To4(ip)) /\ Uint32(To4(ip)) <= r.b

\* ipRange.Contains: r.a is start, r.b is end
Contains(r, ip) ==
    IF To4(ip) = NoIP THEN FALSE
    ELSE r.a <= Uint32(To4(ip)) \/ Uint32(To4(ip)) <= r.b

\* IPRange(start, end net.IP)
IPRange(start, end) ==
    IF To4(start) = NoIP THEN [err |-> "ErrIPv6Unsupported", checker |-> NoChecker]
    ELSE IF To4(end) = NoIP THEN [err |-> "ErrIPv6Unsupported", checker |-> NoChecker]
    ELSE [err |-> "nil",
          checker |-> [t |-> "range", a |-> Uint32(To4(start)), b |-> Uint32(To4(end))]]

\* IPRangeWith(start, end string)
IPRangeWith(start, end) ==
    IF ParseIP(start) = NoIP THEN [err |-> "ErrInvalidAddress", checker |-> NoChecker]
    ELSE IF ParseIP(end) = NoIP THEN [err |-> "ErrInvalidAddress", checker |-> NoChecker]
    ELSE IPRange(ParseIP(start), ParseIP(end))

RECURSIVE Pow2(_)
Pow2(n) == IF n = 0 THEN 1 ELSE 2 * Pow2(n - 1)

\* net.IPNet.Contains for an IPv4 network: c.a is the base address, c.b the
\* number of host bits (32 - prefix length); the masked addresses must agree
IPNetContains(c, ip) ==
    IF To4(ip) = NoIP THEN FALSE
    ELSE Uint32(To4(ip)) \div Pow2(c.b) = c.a \div Pow2(c.b)

\* IPChecker.Contains, dispatched on the dynamic type
CheckerContains(c, ip) ==
    IF c.t = "range" THEN Contains(c, ip) ELSE IPNetContains(c, ip)

(***************************************************************************)
(* Column values.  A value carries its dynamic type t ("nil", "string",    *)
(* "bytes", "time", "int") and its content v.  The content of the password *)
(* column is the text itself; the content of the lock column is a          *)
(* timestamp at, written in the format fmt ("empty" is the empty text);    *)
(* the content of the block-list column is whether the text is a JSON      *)
(* array of strings and the strings of that array.                         *)
(***************************************************************************)
NilVal == [t |-> "nil", v |-> 0]
\* the nil map
NoData == [nil |-> TRUE]
IsNil(o) == o.t = "nil"

\* data[k] of a Go map: the nil interface for a missing key
Get(data, k) == IF k \in DOMAIN data THEN data[k] ELSE NilVal

\* ReadUser's conversion of a scanned column: a non-nil []byte becomes a string
ScanValue(value) == IF value.t = "bytes" THEN [value EXCEPT !.t = "string"] ELSE value

FallbackLayouts == {"rfc3339nano", "rfc3339", "sql"}

\* parseTime(layout, s): the configured layout first, then the fallback list;
\* the zero time (0) when nothing parses
parseTime(layout, s) ==
    IF layout # "" /\ s.fmt = layout THEN s.at
    ELSE IF s.fmt \in FallbackLayouts THEN s.at
    ELSE 0

NoUser == [name |-> "", password |-> "", lockedAt |-> 0, lockedTimeExpires |-> 0,
           blockIPList |-> <<>>, data |-> NoData]

\* toUser, lines 271-278: the stored secret
toUserPassword(data, h) ==
    LET o == Get(data, h.passwordName) IN
    IF IsNil(o) THEN [err |-> "nil", password |-> ""]
    ELSE IF o.t # "string" THEN [err |-> "ErrPasswordNotString", password |-> ""]
    ELSE [err |-> "nil", password |-> o.v]

\* toUserLockedAt reading textual timestamps only
toUserLockedAtText(data, h) ==
    LET o == Get(data, h.lockedFieldName) IN
    IF IsNil(o) THEN [err |-> "nil", lockedAt |-> 0]
    ELSE IF o.t \in {"bytes", "string"} THEN
        IF o.v.fmt = "empty" THEN [err |-> "nil", lockedAt |-> 0]
        ELSE IF parseTime(h.lockedTimeLayout, o.v) = 0
             THEN [err |-> "ErrLockedNotTime", lockedAt |-> 0]
             ELSE [err |-> "nil", lockedAt |-> parseTime(h.lockedTimeLayout, o.v)]
    ELSE [err |-> "nil", lockedAt |-> 0]

\* toUser, lines 280-302: the lock timestamp
toUserLockedAt(data, h) ==
    LET o == Get(data, h.lockedFieldName) IN
    IF IsNil(o) THEN [err |-> "nil", lockedAt |-> 0]
    ELSE IF o.t \in {"bytes", "string"} THEN
        IF o.v.fmt = "empty" THEN [err |-> "nil", lockedAt |-> 0]
        ELSE IF parseTime(h.lockedTimeLayout, o.v) = 0
             THEN [err |-> "ErrLockedNotTime", lockedAt |-> 0]
             ELSE [err |-> "nil", lockedAt |-> parseTime(h.lockedTimeLayout, o.v)]
    ELSE IF o.t = "time" THEN [err |-> "nil", lockedAt |-> o.v.at]
    ELSE [err |-> "ErrLockedNotTime", lockedAt |-> 0]

\* toUser, lines 315-347: one entry of the list.  e.form is the shape of the
\* trimmed text: "blank" (empty), "range" (a-b), "dashes" (more than one '-'),
\* "cidr" (a/len, no '-'), "badcidr" (a '/' that ParseCIDR rejects),
\* "single" (neither '-' nor '/').  skip: the entry adds no checker.
toUserEntry(e) ==
    IF e.form = "blank" THEN [err |-> "nil", skip |-> TRUE, checker |-> NoChecker]
    ELSE IF e.form = "dashes" THEN [err |-> "ErrBlockBadRange", skip |-> TRUE, checker |-> NoChecker]
    ELSE IF e.form = "range" THEN
        IF IPRangeWith(e.a, e.b).err # "nil"
        THEN [err |-> "ErrBlockBadRange", skip |-> TRUE, checker |-> NoChecker]
        ELSE [err |-> "nil", skip |-> FALSE, checker |-> IPRangeWith(e.a, e.b).checker]
    ELSE IF e.form = "badcidr" THEN [err |-> "ErrBlockBadRange", skip |-> TRUE, checker |-> NoChecker]
    ELSE IF e.form = "cidr" THEN
        [err |-> "nil", skip |-> FALSE, checker |-> [t |-> "cidr", a |-> e.a.v, b |-> e.bits]]
    ELSE
        IF IPRangeWith(e.a, e.a).err # "nil"
        THEN [err |-> "ErrBlockBadRange", skip |-> TRUE, checker |-> NoChecker]
        ELSE [err |-> "nil", skip |-> FALSE, checker |-> IPRangeWith(e.a, e.a).checker]

\* toUser, lines 315-347: the loop over the list, stopping at the first error
RECURSIVE toUserEntries(_, _)
toUserEntries(ipList, acc) ==
    IF ipList = <<>> THEN [err |-> "nil", blockIPList |-> acc]
    ELSE LET r == toUserEntry(Head(ipList)) IN
         IF r.err # "nil" THEN [err |-> r.err, blockIPList |-> <<>>]
         ELSE toUserEntries(Tail(ipList), IF r.skip THEN acc ELSE Append(acc, r.checker))

\* toUser, lines 304-348: the block list
toUserBlockIPList(data, h) ==
    LET o == Get(data, h.blockIPList) IN
    IF IsNil(o) THEN [err |-> "nil", blockIPList |-> <<>>]
    ELSE IF o.t # "string" THEN [err |-> "ErrBlockNotString", blockIPList |-> <<>>]
    ELSE IF ~o.v.json THEN [err |-> "ErrBlockNotJSON", blockIPList |-> <<>>]
    ELSE toUserEntries(o.v.list, <<>>)

\* dbUserHandler.toUser
toUser(user, data, h) ==
    LET p == toUserPassword(data, h)
        l == toUserLockedAt(data, h)
        b == toUserBlockIPList(data, h)
    IN  IF p.err # "nil" THEN [err |-> p.err, user |-> NoUser]
        ELSE IF l.err # "nil" THEN [err |-> l.err, user |-> NoUser]
        ELSE IF b.err # "nil" THEN [err |-> b.err, user |-> NoUser]
        ELSE [err |-> "nil",
              user |-> [name |-> user, password |-> p.password, lockedAt |-> l.lockedAt,
                        lockedTimeExpires |-> h.lockedTimeExpires,
                        blockIPList |-> b.blockIPList, data |-> data]]

(***************************************************************************)
(* UserImpl.CanUse.  currentAddr is the address RealIP derives from the    *)
(* request; t is time.Now().                                               *)
(***************************************************************************)
\* CanUse, lines 69-86: the IP check
CanUseIP(u, currentAddr) ==
    IF Len(u.blockIPList) # 0 THEN
        IF ParseIP(currentAddr) = NoIP THEN [ok |-> FALSE, err |-> "ErrAddressInvalid"]
        ELSE IF \A i \in 1..Len(u.blockIPList) :
                    ~CheckerContains(u.blockIPList[i], ParseIP(currentAddr))
             THEN [ok |-> FALSE, err |-> "ErrUserIPBlocked"]
             ELSE [ok |-> TRUE, err |-> "nil"]
    ELSE [ok |-> TRUE, err |-> "nil"]

\* CanUseLock denying without an error
CanUseLockSilent(u, t) ==
    IF u.lockedAt # 0 THEN
        IF u.lockedTimeExpires = 0 THEN [ok |-> FALSE, err |-> "nil"]
        ELSE IF t < u.lockedAt + u.lockedTimeExpires THEN [ok |-> FALSE, err |-> "nil"]
        ELSE [ok |-> TRUE, err |-> "nil"]
    ELSE [ok |-> TRUE, err |-> "nil"]

\* CanUseLock that never lets a lock expire
CanUseLockForever(u, t) ==
    IF u.lockedAt # 0 THEN [ok |-> FALSE, err |-> "ErrUserLocked"]
    ELSE [ok |-> TRUE, err |-> "nil"]

\* CanUseLock still locked at the instant of expiry
CanUseLockInclusive(u, t) ==
    IF u.lockedAt # 0 THEN
        IF u.lockedTimeExpires = 0 THEN [ok |-> FALSE, err |-> "ErrUserLocked"]
        ELSE IF t <= u.lockedAt + u.lockedTimeExpires THEN [ok |-> FALSE, err |-> "ErrUserLocked"]
        ELSE [ok |-> TRUE, err |-> "nil"]
    ELSE [ok |-> TRUE, err |-> "nil"]

\* CanUseLock treating a zero expiry as already expired
CanUseLockZeroExpired(u, t) ==
    IF u.lockedAt # 0 THEN
        IF t < u.lockedAt + u.lockedTimeExpires THEN [ok |-> FALSE, err |-> "ErrUserLocked"]
        ELSE [ok |-> TRUE, err |-> "nil"]
    ELSE [ok |-> TRUE, err |-> "nil"]

\* CanUse, lines 87-94: the lock check
CanUseLock(u, t) ==
    IF u.lockedAt # 0 THEN
        IF u.lockedTimeExpires = 0 THEN [ok |-> FALSE, err |-> "ErrUserLocked"]
        ELSE IF t < u.lockedAt + u.lockedTimeExpires THEN [ok |-> FALSE, err |-> "ErrUserLocked"]
        ELSE [ok |-> TRUE, err |-> "nil"]
    ELSE [ok |-> TRUE, err |-> "nil"]

\* CanUse testing the lock before the address
CanUseLockFirst(u, currentAddr, t) ==
    IF ~CanUseLock(u, t).ok THEN CanUseLock(u, t)
    ELSE CanUseIP(u, currentAddr)

CanUse(u, currentAddr, t) ==
    IF ~CanUseIP(u, currentAddr).ok THEN CanUseIP(u, currentAddr)
    ELSE CanUseLock(u, t)

(***************************************************************************)
(* SigningMethod.Verify(plain, expected, secretKey).  A stored secret is   *)
(* either the encoding of a plaintext or text that cannot be decoded.      *)
(***************************************************************************)
Encode(plain) ==
    IF plain = "pw" THEN "enc_pw" ELSE IF plain = "" THEN "enc_empty" ELSE "enc_guess"

Decodable == {"enc_pw", "enc_empty", "enc_guess"}

Verify(plain, expected, secretKey) ==
    IF expected \notin Decodable THEN "ErrMalformedSecret"
    ELSE IF Encode(plain) = expected THEN "nil"
    ELSE "ErrSignatureInvalid"

(***************************************************************************)
(* dbUserHandler.ReadUser.  fault is what the store does to this query:    *)
(*   none       every matching row is delivered                            *)
(*   query_err  Query fails                                                *)
(*   no_rows    Query fails with sql.ErrNoRows                             *)
(*   scan_err   Columns or Scan fails on row k+1                           *)
(*   iter_err   iteration stops after k rows and rows.Err() is set         *)
(***************************************************************************)
Min(a, b) == IF a < b THEN a ELSE b

\* the rows the query text selects: those of the user name
Query(tbl, username) == SelectSeq(tbl, LAMBDA r : r.username.v = username)

\* ReadUser, lines 385-392: the map built from the scanned columns
ScanRow(row) == [nm \in DOMAIN row |-> ScanValue(row[nm])]

\* ReadUser, lines 370-398: the loop over the delivered rows; failAt is the
\* index of the row whose Columns/Scan fails (0: none)
RECURSIVE ReadRows(_, _, _, _, _, _)
ReadRows(h, username, rows, i, failAt, acc) ==
    IF i > Len(rows) THEN [err |-> "nil", users |-> acc]
    ELSE IF i = failAt THEN [err |-> "ErrStore", users |-> <<>>]
    ELSE LET u == toUser(username, ScanRow(rows[i]), h) IN
         IF u.err # "nil" THEN [err |-> u.err, users |-> <<>>]
         ELSE ReadRows(h, username, rows, i + 1, failAt, Append(acc, u.user))

\* ReadUser, lines 399-404: what is returned after the loop.  iterErr: rows.Err()
\* is set.  The err tested and returned there is the one Query assigned, nil by then.
ReadUserEnd(r, iterErr) ==
    IF r.err # "nil" THEN r
    ELSE IF iterErr THEN [err |-> "nil", users |-> <<>>]
    ELSE r

ReadUser(tbl, h, username, fault) ==
    IF fault.kind = "query_err" THEN [err |-> "ErrStore", users |-> <<>>]
    ELSE IF fault.kind = "no_rows" THEN [err |-> "nil", users |-> <<>>]
    ELSE LET all == Query(tbl, username)
             delivered == IF fault.kind = "iter_err"
                          THEN SubSeq(all, 1, Min(fault.k, Len(all))) ELSE all
             failAt == IF fault.kind = "scan_err" THEN fault.k + 1 ELSE 0
         IN  ReadUserEnd(ReadRows(h, username, delivered, 1, failAt, <<>>),
                         fault.kind = "iter_err")

(***************************************************************************)
(* userAuthenticationHandler.Auth.  A result is the error and the claims;  *)
(* steps lists what the call did after the lookup: the operation, the      *)
(* error it returned, a note (the fault of a ReadUser, "ok" or "denied"    *)
(* for CanUse) and the clock value it read (0: none).                      *)
(***************************************************************************)
Step(op, out, info, at) == [op |-> op, out |-> out, info |-> info, at |-> at]

Fail(e, steps) == [err |-> e, data |-> NoData, steps |-> steps]

\* AuthVerified returning every Verify failure as a password mismatch
AuthVerifiedCoerced(v, u, steps) ==
    IF v # "nil" THEN Fail("ErrPasswordNotMatch", steps)
    ELSE [err |-> "nil", data |-> u.data, steps |-> steps]

\* AuthVerified returning only the password column as claims
AuthVerifiedPartial(v, u, steps) ==
    IF v # "nil" THEN
        IF v = "ErrSignatureInvalid" THEN Fail("ErrPasswordNotMatch", steps)
        ELSE Fail(v, steps)
    ELSE [err |-> "nil", data |-> [password |-> u.data.password], steps |-> steps]

\* Auth, lines 94-101: the outcome of Verify
AuthVerified(v, u, steps) ==
    IF v # "nil" THEN
        IF v = "ErrSignatureInvalid" THEN Fail("ErrPasswordNotMatch", steps)
        ELSE Fail(v, steps)
    ELSE [err |-> "nil", data |-> u.data, steps |-> steps]

\* AuthPassword handing an empty stored secret to Verify
AuthPasswordUnchecked(h, u, password, steps) ==
    LET v == Verify(password, u.password, h.secretKey) IN
    AuthVerified(v, u, Append(steps, Step("Verify", v, "", 0)))

\* Auth, lines 89-101
AuthPassword(h, u, password, steps) ==
    IF u.password = "" THEN Fail("ErrPasswordEmpty", steps)
    ELSE LET v == Verify(password, u.password, h.secretKey) IN
         AuthVerified(v, u, Append(steps, Step("Verify", v, "", 0)))

\* Auth, lines 81-87: the outcome of the usability check
AuthUsable(c) ==
    IF c.err # "nil" THEN c.err
    ELSE IF ~c.ok THEN "ErrUserInused"
    ELSE "nil"

\* AuthCount taking the first of several records
AuthCountFirst(us) ==
    IF Len(us) = 0 THEN "ErrUserNotFound" ELSE "nil"

\* Auth, lines 74-79: the number of records
AuthCount(us) ==
    IF Len(us) = 0 THEN "ErrUserNotFound"
    ELSE IF Len(us) # 1 THEN "ErrMutiUsers"
    ELSE "nil"

\* Auth, lines 71-101: from the return of the lookup on
AuthResult(h, r, address, password, t) ==
    IF r.err # "nil" THEN Fail(r.err, <<>>)
    ELSE IF AuthCount(r.users) # "nil" THEN Fail(AuthCount(r.users), <<>>)
    ELSE LET u == r.users[1]
             c == CanUse(u, address, t)
             steps == <<Step("CanUse", c.err, IF c.ok THEN "ok" ELSE "denied", t)>>
         IN  IF AuthUsable(c) # "nil" THEN Fail(AuthUsable(c), steps)
             ELSE AuthPassword(h, u, password, steps)

\* AuthUsername without the check
AuthUsernameUnchecked(username) == "nil"

\* Auth, lines 66-68
AuthUsername(username) == IF username = "" THEN "ErrUsernameEmpty" ELSE "nil"

(***************************************************************************)
(* dbUserHandler.LockUser.  fault is what the store does to the update:    *)
(* none, exec_err (Exec fails, nothing written), affected_err (the update  *)
(* is applied and RowsAffected fails).                                     *)
(***************************************************************************)
TimeVal(t) == [t |-> "time", v |-> [fmt |-> "rfc3339", at |-> t]]

\* the lock statement run with (now, username): stamps the rows of the user
Exec(tbl, t, username) ==
    [i \in DOMAIN tbl |->
        IF tbl[i].username.v = username THEN [tbl[i] EXCEPT !.locked_at = TimeVal(t)]
        ELSE tbl[i]]

RowsAffected(tbl, username) == Len(Query(tbl, username))

\* LockUser without the affected-rows test
LockUserUncounted(h, tbl, username, t, fault) ==
    IF h.lockSQL = "" THEN [err |-> "nil", store |-> tbl]
    ELSE IF fault = "exec_err" THEN [err |-> "ErrStore", store |-> tbl]
    ELSE IF fault = "affected_err" THEN [err |-> "ErrStore", store |-> Exec(tbl, t, username)]
    ELSE [err |-> "nil", store |-> Exec(tbl, t, username)]

LockUserResult(h, tbl, username, t, fault) ==
    IF h.lockSQL = "" THEN [err |-> "nil", store |-> tbl]
    ELSE IF fault = "exec_err" THEN [err |-> "ErrStore", store |-> tbl]
    ELSE IF fault = "affected_err" THEN [err |-> "ErrStore", store |-> Exec(tbl, t, username)]
    ELSE IF RowsAffected(tbl, username) = 0
         THEN [err |-> "ErrZeroUpdated", store |-> Exec(tbl, t, username)]
         ELSE [err |-> "nil", store |-> Exec(tbl, t, username)]

(***************************************************************************)
(* The inputs.                                                             *)
(***************************************************************************)
Callers == {"c1", "c2"}
\* the callers of the sequential specification
SeqCallers == {"c1"}

Usernames == {"", "alice", "bob"}
StoredNames == {"alice", "bob"}
Passwords == {"", "pw", "guess"}

Str(x) == [t |-> "string", v |-> x]
Bytes(x) == [t |-> "bytes", v |-> x]

\* lock column contents
NoText == [fmt |-> "empty", at |-> 0]
LockNil == [t |-> "nil", v |-> NoText]
LockText(fmt, at) == [t |-> "string", v |-> [fmt |-> fmt, at |-> at]]

\* block-list column contents
BlockNil == [t |-> "nil", v |-> [json |-> TRUE, list |-> <<>>]]
BlockJSON(list) == [t |-> "string", v |-> [json |-> TRUE, list |-> list]]
EntryRange(a, b) == [form |-> "range", a |-> a, b |-> b, bits |-> 0]
EntryCIDR(a, bits) == [form |-> "cidr", a |-> a, b |-> a, bits |-> bits]
EntrySingle(a) == [form |-> "single", a |-> a, b |-> a, bits |-> 0]
EntryOther(form) == [form |-> form, a |-> BadAddr, b |-> BadAddr, bits |-> 0]

Row(name, pw, locked, block) ==
    [username |-> Str(name), password |-> pw, locked_at |-> locked, block_list |-> block]

\* the rows of the stores of Spec
\* a password column the driver delivers as a number
IntCol == [t |-> "int", v |-> "7"]
StorePasswords == {Str("enc_pw"), Bytes("enc_pw"), Str(""), Str("garbage"), IntCol}
StoreLocks == {LockNil, LockText("rfc3339", 1)}
StoreBlocks == {BlockNil, BlockJSON(<<EntryCIDR(V4(1), 0)>>), BlockJSON(<<EntrySingle(V4(1))>>)}

Copies(r, n) == [i \in 1..n |-> r]

InitStores ==
    {Copies(Row(u, p, l, b), n) :
        u \in StoredNames, p \in StorePasswords, l \in StoreLocks, b \in StoreBlocks,
        n \in 0..MaxRows}

\* the handlers' fields after construction
Config(expires, lockSQL) ==
    [passwordName |-> "password", lockedFieldName |-> "locked_at",
     blockIPList |-> "block_list", lockedTimeLayout |-> "",
     lockedTimeExpires |-> expires, lockSQL |-> lockSQL,
     signingMethod |-> "default", secretKey |-> ""]

Configs == {Config(e, q) : e \in {0, 1}, q \in {"", "UPDATE"}}

ReadFaults ==
    {[kind |-> "none", k |-> 0], [kind |-> "query_err", k |-> 0], [kind |-> "no_rows", k |-> 0]}
    \cup {[kind |-> "scan_err", k |-> k] : k \in 0..(MaxRows - 1)}
    \cup {[kind |-> "iter_err", k |-> k] : k \in 0..MaxRows}

LockFaults == {"none", "exec_err", "affected_err"}

NoArgs == [op |-> "none", address |-> BadAddr, username |-> "", password |-> ""]
NoRead == [err |-> "nil", users |-> <<>>]
NoResult == [err |-> "none", data |-> NoData]
NoUnit == [stage |-> "none"]
\* no lookup made yet
NoSeen == [store |-> <<>>, fault |-> [kind |-> "none", k |-> 0]]

(***************************************************************************)
(* The state machine: callers run Auth and LockUser against the store      *)
(* while the clock advances.                                               *)
(***************************************************************************)
Init ==
    /\ store \in InitStores
    /\ now = 1
    /\ cfg \in Configs
    /\ pc = [c \in Callers |-> "idle"]
    /\ args = [c \in Callers |-> NoArgs]
    /\ users = [c \in Callers |-> NoRead]
    /\ result = [c \in Callers |-> NoResult]
    /\ trace = [c \in Callers |-> <<>>]
    /\ seen = [c \in Callers |-> NoSeen]
    /\ unit = NoUnit

\* Auth is entered: lines 65-68
AuthCallOf(c, addresses, usernames, passwords) ==
    /\ pc[c] = "idle"
    /\ \E address \in addresses, username \in usernames, password \in passwords :
        /\ args' = [args EXCEPT ![c] = [op |-> "Auth", address |-> address,
                                        username |-> username, password |-> password]]
        /\ IF AuthUsername(username) # "nil"
           THEN /\ pc' = [pc EXCEPT ![c] = "done"]
                /\ result' = [result EXCEPT ![c] = [err |-> AuthUsername(username),
                                                    data |-> NoData]]
           ELSE /\ pc' = [pc EXCEPT ![c] = "ReadUser"]
                /\ UNCHANGED result
    /\ UNCHANGED <<store, now, cfg, users, trace, unit, seen>>

AuthCall(c) == AuthCallOf(c, Addresses, Usernames, Passwords)

\* the lookup: line 70, the call's only access to the store
AuthReadUserOf(c, faults) ==
    /\ pc[c] = "ReadUser"
    /\ \E fault \in faults :
        LET r == ReadUser(store, cfg, args[c].username, fault) IN
        /\ users' = [users EXCEPT ![c] = r]
        /\ trace' = [trace EXCEPT ![c] = Append(@, Step("ReadUser", r.err, fault.kind, 0))]
        /\ seen' = [seen EXCEPT ![c] = [store |-> store, fault |-> fault]]
    /\ pc' = [pc EXCEPT ![c] = "resume"]
    /\ UNCHANGED <<store, now, cfg, args, result, unit>>

AuthReadUser(c) == AuthReadUserOf(c, ReadFaults)

\* the rest of Auth, writing a lock for the user when the password fails
AuthResumeLocking(c) ==
    /\ pc[c] = "resume"
    /\ LET r == AuthResult(cfg, users[c], args[c].address, args[c].password, now) IN
        /\ result' = [result EXCEPT ![c] = [err |-> r.err, data |-> r.data]]
        /\ trace' = [trace EXCEPT ![c] = @ \o r.steps]
        /\ store' = IF r.err = "ErrPasswordNotMatch"
                    THEN Exec(store, now, args[c].username) ELSE store
    /\ pc' = [pc EXCEPT ![c] = "done"]
    /\ UNCHANGED <<now, cfg, args, users, unit, seen>>

\* the rest of Auth, looking the user up again instead of using what it read
AuthResumeRereading(c) ==
    /\ pc[c] = "resume"
    /\ LET again == ReadUser(store, cfg, args[c].username, seen[c].fault)
           r == AuthResult(cfg, again, args[c].address, args[c].password, now) IN
        /\ result' = [result EXCEPT ![c] = [err |-> r.err, data |-> r.data]]
        /\ trace' = [trace EXCEPT ![c] = @ \o r.steps]
    /\ pc' = [pc EXCEPT ![c] = "done"]
    /\ UNCHANGED <<store, now, cfg, args, users, unit, seen>>

\* the rest of Auth: lines 71-101
AuthResume(c) ==
    /\ pc[c] = "resume"
    /\ LET r == AuthResult(cfg, users[c], args[c].address, args[c].password, now) IN
        /\ result' = [result EXCEPT ![c] = [err |-> r.err, data |-> r.data]]
        /\ trace' = [trace EXCEPT ![c] = @ \o r.steps]
    /\ pc' = [pc EXCEPT ![c] = "done"]
    /\ UNCHANGED <<store, now, cfg, args, users, unit, seen>>

\* LockUser, lines 407-424
LockUserOf(c, usernames, faults) ==
    /\ pc[c] = "idle"
    /\ \E username \in usernames, fault \in faults :
        LET r == LockUserResult(cfg, store, username, now, fault) IN
        /\ args' = [args EXCEPT ![c] = [op |-> "LockUser", address |-> BadAddr,
                                        username |-> username, password |-> ""]]
        /\ result' = [result EXCEPT ![c] = [err |-> r.err, data |-> NoData]]
        /\ store' = r.store
        /\ trace' = [trace EXCEPT ![c] =
                        IF cfg.lockSQL = "" THEN <<>>
                        ELSE <<Step("Exec", r.err, fault, now)>>]
    /\ pc' = [pc EXCEPT ![c] = "done"]
    /\ UNCHANGED <<now, cfg, users, unit, seen>>

LockUser(c) == LockUserOf(c, Usernames, LockFaults)

\* the caller takes the result and is free for its next call
Return(c) ==
    /\ pc[c] = "done"
    /\ pc' = [pc EXCEPT ![c] = "idle"]
    /\ args' = [args EXCEPT ![c] = NoArgs]
    /\ users' = [users EXCEPT ![c] = NoRead]
    /\ result' = [result EXCEPT ![c] = NoResult]
    /\ trace' = [trace EXCEPT ![c] = <<>>]
    /\ seen' = [seen EXCEPT ![c] = NoSeen]
    /\ UNCHANGED <<store, now, cfg, unit>>

\* time passes
Tick ==
    /\ now < MaxTime
    /\ now' = now + 1
    /\ UNCHANGED <<store, cfg, pc, args, users, result, trace, unit, seen>>

Next ==
    \/ \E c \in SeqCallers : AuthCall(c)
    \/ \E c \in SeqCallers : AuthReadUser(c)
    \/ \E c \in SeqCallers : AuthResume(c)
    \/ \E c \in SeqCallers : LockUser(c)
    \/ \E c \in SeqCallers : Return(c)
    \/ Tick

Spec == Init /\ [][Next]_vars

(***************************************************************************)
(* Properties of Auth, checked under Spec.                                 *)
(***************************************************************************)
\* the Auth calls that have returned
Returned(c) == pc[c] = "done" /\ args[c].op = "Auth"

\* the step of the call of c that ran op, if any
Ran(c, op) == \E i \in 1..Len(trace[c]) : trace[c][i].op = op
StepOf(c, op) == trace[c][CHOOSE i \in 1..Len(trace[c]) : trace[c][i].op = op]

\* the sole record of a lookup that returned exactly one
Sole(c) == users[c].users[1]
OneRecord(c) == Ran(c, "ReadUser") /\ users[c].err = "nil" /\ Len(users[c].users) = 1

\* C1: Auth with an empty username returns UsernameEmpty and no claims, whatever
\* the address and password, and the call performs no lookup: it never reaches
\* the ReadUser step and its trace of store accesses stays empty.
C1_EmptyUsername ==
    \A c \in Callers :
        (args[c].op = "Auth" /\ args[c].username = "") =>
            /\ pc[c] = "done"
            /\ result[c] = [err |-> "ErrUsernameEmpty", data |-> NoData]
            /\ trace[c] = <<>>

C1_Witness ==
    \E c \in Callers :
        /\ Returned(c) /\ args[c].username = ""
        /\ args[c].password = "pw" /\ args[c].address = V4(1)
        /\ Len(Query(store, "alice")) = 1

\* C2: for a non-empty username, a lookup that yields no record makes Auth return
\* UserNotFound and one that yields several makes it return AmbiguousUser
\* (ErrMutiUsers), for every password and address; no usability check and no
\* Verify is performed and no claims are returned.
C2_RecordCount ==
    \A c \in Callers :
        (Returned(c) /\ args[c].username # "" /\ users[c].err = "nil"
                     /\ Len(users[c].users) # 1) =>
            /\ Len(users[c].users) = 0 =>
                    result[c] = [err |-> "ErrUserNotFound", data |-> NoData]
            /\ Len(users[c].users) > 1 =>
                    result[c] = [err |-> "ErrMutiUsers", data |-> NoData]
            /\ ~Ran(c, "CanUse") /\ ~Ran(c, "Verify")
            /\ Len(trace[c]) = 1

\* two rows for the name, each with the secret of the supplied password
C2_Witness ==
    \E c \in Callers :
        /\ Returned(c) /\ users[c].err = "nil" /\ Len(users[c].users) = 2
        /\ args[c].password = "pw" /\ users[c].users[1].password = "enc_pw"
        /\ users[c].users[1].lockedAt = 0 /\ users[c].users[1].blockIPList = <<>>
        /\ result[c].err = "ErrMutiUsers"

\* C3: one record, neither locked nor IP-restricted, with a non-empty secret that
\* Verify accepts: Auth returns a nil error and the record's data, which is the
\* map of the row's columns as scanned.
C3_Success ==
    \A c \in Callers :
        (Returned(c) /\ args[c].username # "" /\ OneRecord(c)
            /\ Sole(c).lockedAt = 0 /\ Sole(c).blockIPList = <<>>
            /\ Sole(c).password # ""
            /\ Verify(args[c].password, Sole(c).password, cfg.secretKey) = "nil") =>
                /\ result[c] = [err |-> "nil", data |-> Sole(c).data]
                /\ Len(Query(store, args[c].username)) = 1
                /\ result[c].data = ScanRow(Query(store, args[c].username)[1])

C3_Witness ==
    \E c \in Callers :
        /\ Returned(c) /\ args[c].username = "alice" /\ OneRecord(c)
        /\ Sole(c).lockedAt = 0 /\ Sole(c).blockIPList = <<>>
        /\ result[c].err = "nil"
        /\ result[c].data.password = Str("enc_pw")
        /\ store[1].password = Bytes("enc_pw")

\* C4: when Auth reaches Verify, a mismatch is returned as PasswordNotMatch and
\* any other failure of Verify is returned as that same error; neither returns
\* claims.
C4_VerifyErrors ==
    \A c \in Callers :
        (Returned(c) /\ Ran(c, "Verify") /\ StepOf(c, "Verify").out # "nil") =>
            /\ result[c].data = NoData
            /\ StepOf(c, "Verify").out = "ErrSignatureInvalid" =>
                    result[c].err = "ErrPasswordNotMatch"
            /\ StepOf(c, "Verify").out # "ErrSignatureInvalid" =>
                    result[c].err = StepOf(c, "Verify").out

C4_Witness ==
    \E c \in Callers :
        /\ Returned(c) /\ Ran(c, "Verify")
        /\ StepOf(c, "Verify").out = "ErrMalformedSecret"
        /\ result[c].err = "ErrMalformedSecret"

\* C5: when the usability check denies the sole record, Auth returns the very
\* error the check produced, one of its specific kinds, and never the generic
\* "user is inused" error.
DenialKinds == {"ErrUserIPBlocked", "ErrAddressInvalid", "ErrUserLocked"}

AtLockCheck(c) ==
    /\ Returned(c) /\ OneRecord(c) /\ Ran(c, "CanUse")
    /\ CanUseIP(Sole(c), args[c].address).ok

\* the lock of the record is permanent / is temporary and running at the time read
PermanentLock(c) == Sole(c).lockedAt # 0 /\ Sole(c).lockedTimeExpires = 0
RunningLock(c) ==
    /\ Sole(c).lockedAt # 0 /\ Sole(c).lockedTimeExpires > 0
    /\ StepOf(c, "CanUse").at < Sole(c).lockedAt + Sole(c).lockedTimeExpires

\* what the call of c would have returned had the lock of its record been permanent
AsPermanent(c) ==
    AuthResult(cfg,
               [users[c] EXCEPT !.users = <<[Sole(c) EXCEPT !.lockedTimeExpires = 0]>>],
               args[c].address, args[c].password, StepOf(c, "CanUse").at)

LockedAnHourAgo(c) ==
    /\ Returned(c) /\ OneRecord(c) /\ Ran(c, "CanUse")
    /\ Sole(c).blockIPList = <<>>
    /\ Sole(c).lockedAt # 0
    /\ Sole(c).lockedAt + 2 = StepOf(c, "CanUse").at
    /\ Sole(c).lockedTimeExpires = 1

\* C10 as stated: in that scenario Auth returns the lock error, for every password.
C10_StillLocked ==
    \A c \in Callers : LockedAnHourAgo(c) => result[c].err = "ErrUserLocked"

\* C10 as amended: in that scenario the lock has expired, Auth returns no lock
\* error and goes on to the stored secret: PasswordEmpty for an empty secret,
\* otherwise the outcome of Verify for the supplied password.
C10_LockExpired ==
    \A c \in Callers :
        LockedAnHourAgo(c) =>
            /\ result[c].err # "ErrUserLocked"
            /\ StepOf(c, "CanUse").info = "ok"
            /\ Sole(c).password = "" => result[c].err = "ErrPasswordEmpty"
            /\ Sole(c).password # "" =>
                    /\ Ran(c, "Verify")
                    /\ result[c].err = "nil" <=>
                        Verify(args[c].password, Sole(c).password, cfg.secretKey) = "nil"
                    /\ result[c].err = "nil" => result[c].data = Sole(c).data

C10_Witness ==
    \E c \in Callers :
        /\ LockedAnHourAgo(c)
        /\ args[c].password = "pw"
        /\ result[c].err = "nil"

(***************************************************************************)
(* SpecRange: IPRangeWith and ipRange.Contains on their own.  The fixture  *)
(* is the two bounds as configured text and the probe address.             *)
(***************************************************************************)
Idle ==
    /\ store = <<>>
    /\ now = 1
    /\ pc = [c \in Callers |-> "idle"]
    /\ args = [c \in Callers |-> NoArgs]
    /\ users = [c \in Callers |-> NoRead]
    /\ result = [c \in Callers |-> NoResult]
    /\ trace = [c \in Callers |-> <<>>]
    /\ seen = [c \in Callers |-> NoSeen]

\* the probes: parsed addresses, IPv4 or IPv6
Probes == Addresses \ {BadAddr}

InitRange ==
    /\ Idle
    /\ cfg = Config(0, "")
    /\ unit \in {[stage |-> "input", start |-> a, end |-> b, ip |-> ip,
                  built |-> [err |-> "nil", checker |-> NoChecker], out |-> FALSE] :
                 a \in Addresses, b \in Addresses, ip \in Probes}

\* the checker is built from the text of the bounds
RangeBuild ==
    /\ unit.stage = "input"
    /\ LET r == IPRangeWith(unit.start, unit.end) IN
        unit' = [unit EXCEPT !.stage = IF r.err = "nil" THEN "built" ELSE "rejected",
                             !.built = r]
    /\ UNCHANGED <<store, now, cfg, pc, args, users, result, trace, seen>>

\* the checker is asked about the probe
RangeContains ==
    /\ unit.stage = "built"
    /\ unit' = [unit EXCEPT !.stage = "probed",
                            !.out = Contains(unit.built.checker, unit.ip)]
    /\ UNCHANGED <<store, now, cfg, pc, args, users, result, trace, seen>>

NextRange == RangeBuild \/ RangeContains

SpecRange == InitRange /\ [][NextRange]_vars

\* C6: a range checker built from IPv4 bounds contains an IPv4 address exactly
\* when start <= ip and ip <= end as ordinals (so never when start > end), and
\* never contains a non-IPv4 probe.
C6_BothBounds ==
    unit.stage = "probed" =>
        (unit.out <=> /\ unit.ip.k = "v4"
                      /\ unit.start.v <= unit.ip.v
                      /\ unit.ip.v <= unit.end.v)

(***************************************************************************)
(* SpecBlock and SpecLock: toUser and CanUse on one row.  The fixture is   *)
(* the row, the caller address and the handler's fields (cfg).             *)
(***************************************************************************)
Fixture(row, address) ==
    [stage |-> "input", row |-> row, address |-> address, err |-> "nil",
     rec |-> NoUser, out |-> [ok |-> FALSE, err |-> "nil"], at |-> 0]

\* the row is mapped: toUser on the scanned columns
UnitToUser ==
    /\ unit.stage = "input"
    /\ LET r == toUser(unit.row.username.v, ScanRow(unit.row), cfg) IN
        unit' = [unit EXCEPT !.stage = IF r.err = "nil" THEN "record" ELSE "rejected",
                             !.err = r.err, !.rec = r.user]
    /\ UNCHANGED <<store, now, cfg, pc, args, users, result, trace, seen>>

\* the record is asked whether the caller may use it
UnitCanUse ==
    /\ unit.stage = "record"
    /\ unit' = [unit EXCEPT !.stage = "checked",
                            !.out = CanUse(unit.rec, unit.address, now),
                            !.at = now]
    /\ UNCHANGED <<store, now, cfg, pc, args, users, result, trace, seen>>

\* the entries a block list is written with
BlockEntries ==
    {EntryRange(V4(a), V4(b)) : a \in Ordinals, b \in Ordinals}
    \cup {EntryRange(V6Addr, V4(0)), EntryRange(V4(0), BadAddr)}
    \cup {EntryCIDR(V4(a), bits) : a \in Ordinals, bits \in 0..1}
    \cup {EntrySingle(a) : a \in Addresses}
    \cup {EntryOther("blank"), EntryOther("dashes"), EntryOther("badcidr")}

RECURSIVE ListsUpTo(_, _)
ListsUpTo(S, n) ==
    IF n = 0 THEN {<<>>}
    ELSE LET shorter == ListsUpTo(S, n - 1) IN
         shorter \cup {Append(l, e) : l \in {x \in shorter : Len(x) = n - 1}, e \in S}

BlockValues ==
    {BlockNil, [t |-> "int", v |-> [json |-> FALSE, list |-> <<>>]],
     [t |-> "string", v |-> [json |-> FALSE, list |-> <<>>]]}
    \cup {BlockJSON(l) : l \in ListsUpTo(BlockEntries, MaxList)}

BlockConfigs == {Config(0, ""), [Config(0, "") EXCEPT !.blockIPList = ""]}

InitBlock ==
    /\ Idle
    /\ cfg \in BlockConfigs
    /\ unit \in {Fixture(Row("alice", Str("enc_pw"), LockNil, b), a) :
                 b \in BlockValues, a \in Addresses}

NextBlock == UnitToUser \/ UnitCanUse

SpecBlock == InitBlock /\ [][NextBlock]_vars

\* an entry as the allow-list reading has it: a range holds the addresses between
\* its bounds, a network those of its prefix
Allows(checker, ip) ==
    IF checker.t = "range" THEN ContainsBothBounds(checker, ip)
    ELSE IPNetContains(checker, ip)

\* C7: with a non-empty block list a parsable caller address inside none of the
\* entries is rejected with IPBlocked and one inside some entry passes; with an
\* empty block list the IP check rejects no address, parsable or not.
C7_AllowList ==
    unit.stage = "checked" =>
        LET list == unit.rec.blockIPList
            ip == ParseIP(unit.address)
            inside == \E i \in 1..Len(list) : Allows(list[i], ip)
        IN  /\ (Len(list) # 0 /\ ip # NoIP /\ ~inside) =>
                    unit.out = [ok |-> FALSE, err |-> "ErrUserIPBlocked"]
            /\ (Len(list) # 0 /\ ip # NoIP /\ inside) => unit.out.ok
            /\ Len(list) = 0 => unit.out.ok

\* the lock column as the store may hold it
LockValues ==
    {LockNil, [t |-> "int", v |-> NoText], LockText("empty", 0),
     [t |-> "bytes", v |-> NoText]}
    \cup {[t |-> ty, v |-> [fmt |-> f, at |-> n]] :
            ty \in {"string", "bytes"}, f \in {"rfc3339", "custom", "junk"}, n \in 0..MaxTime}
    \cup {TimeVal(n) : n \in 0..MaxTime}

LockConfigs ==
    {[Config(e, "") EXCEPT !.lockedTimeLayout = layout, !.lockedFieldName = name] :
        e \in 0..MaxTime, layout \in {"", "custom"}, name \in {"", "locked_at"}}

InitLock ==
    /\ Idle
    /\ cfg \in LockConfigs
    /\ unit \in {Fixture(Row("alice", Str("enc_pw"), l, b), a) :
                 l \in LockValues, b \in StoreBlocks, a \in {V4(0), V4(1), BadAddr}}

NextLock == UnitToUser \/ UnitCanUse \/ Tick

SpecLock == InitLock /\ [][NextLock]_vars

\* C8: for a record that passes the IP check, CanUse allows it whenever lockedAt
\* is absent, whatever the expiry; with lockedAt set and a positive expiry it
\* allows it exactly when now >= lockedAt + expiry; with lockedAt set and a zero
\* expiry it never allows it.
C8_LockDecision ==
    (unit.stage = "checked" /\ CanUseIP(unit.rec, unit.address).ok) =>
        LET u == unit.rec IN
        /\ u.lockedAt = 0 => unit.out.ok
        /\ (u.lockedAt # 0 /\ u.lockedTimeExpires > 0) =>
                (unit.out.ok <=> unit.at >= u.lockedAt + u.lockedTimeExpires)
        /\ (u.lockedAt # 0 /\ u.lockedTimeExpires = 0) => ~unit.out.ok

\* the boundary instant: the clock read is exactly lockedAt + expiry
C8_Witness ==
    /\ unit.stage = "checked"
    /\ unit.rec.lockedAt # 0 /\ unit.rec.lockedTimeExpires > 0
    /\ unit.at = unit.rec.lockedAt + unit.rec.lockedTimeExpires
    /\ unit.out.ok

(***************************************************************************)
(* Further properties of Auth, checked under Spec.                          *)
(***************************************************************************)
\* C11: when the sole record is usable and its stored secret is empty, Auth
\* returns PasswordEmpty for every supplied password, the empty one included,
\* and Verify is not invoked; no call ever hands Verify an empty stored secret.
C11_EmptySecret ==
    \A c \in Callers :
        /\ (Returned(c) /\ OneRecord(c) /\ Ran(c, "CanUse")
                /\ StepOf(c, "CanUse").info = "ok" /\ Sole(c).password = "") =>
                /\ result[c] = [err |-> "ErrPasswordEmpty", data |-> NoData]
                /\ ~Ran(c, "Verify")
        /\ Ran(c, "Verify") => Sole(c).password # ""

C11_Witness ==
    \E c \in Callers :
        /\ Returned(c) /\ OneRecord(c) /\ Sole(c).password = ""
        /\ StepOf(c, "CanUse").info = "ok"
        /\ args[c].password = ""
        /\ result[c].err = "ErrPasswordEmpty"

(***************************************************************************)
(* SpecSQL: ReplacePlaceholders.  A text is a sequence of characters; the  *)
(* fixture holds the loop's variables: what is left of sql, the buffer,    *)
(* the counter i, and the number n of iterations done.                     *)
(***************************************************************************)
\* strings.Index(sql, "?"), 1-based; 0 when there is none
Index(sql) ==
    IF \E p \in 1..Len(sql) : sql[p] = "?"
    THEN CHOOSE p \in 1..Len(sql) : sql[p] = "?" /\ \A q \in 1..(p - 1) : sql[q] # "?"
    ELSE 0

DigitChars == <<"0", "1", "2", "3", "4", "5", "6", "7", "8", "9">>

\* fmt's %d of a positive number
RECURSIVE Decimal(_)
Decimal(n) ==
    IF n < 10 THEN <<DigitChars[n + 1]>>
    ELSE Decimal(n \div 10) \o <<DigitChars[(n % 10) + 1]>>

\* ReplacePlaceholders with the escape taking a sequence number too
ReplaceIterEscapeCounts(st) ==
    LET p == Index(st.sql) IN
    IF Len(st.sql) - p + 1 > 1 /\ st.sql[p + 1] = "?" THEN
        [st EXCEPT !.buf = st.buf \o SubSeq(st.sql, 1, p - 1) \o <<"?">>,
                   !.i = st.i + 1,
                   !.sql = SubSeq(st.sql, p + 2, Len(st.sql)), !.n = st.n + 1]
    ELSE
        [st EXCEPT !.i = st.i + 1,
                   !.buf = st.buf \o SubSeq(st.sql, 1, p - 1) \o <<"$">> \o Decimal(st.i + 1),
                   !.sql = SubSeq(st.sql, p + 1, Len(st.sql)), !.n = st.n + 1]

\* ReplacePlaceholders, lines 454-466: one iteration that found a '?' at p
ReplaceIter(st) ==
    LET p == Index(st.sql) IN
    IF Len(st.sql) - p + 1 > 1 /\ st.sql[p + 1] = "?" THEN
        [st EXCEPT !.buf = st.buf \o SubSeq(st.sql, 1, p - 1) \o <<"?">>,
                   !.sql = SubSeq(st.sql, p + 2, Len(st.sql)), !.n = st.n + 1]
    ELSE
        [st EXCEPT !.i = st.i + 1,
                   !.buf = st.buf \o SubSeq(st.sql, 1, p - 1) \o <<"$">> \o Decimal(st.i + 1),
                   !.sql = SubSeq(st.sql, p + 1, Len(st.sql)), !.n = st.n + 1]

SQLChars == {"?", "x", "$", "1"}

\* "WHERE x=? AND y=??"
ExampleSQL ==
    <<"W", "H", "E", "R", "E", " ", "x", "=", "?", " ", "A", "N", "D", " ", "y", "=", "?", "?">>
\* "WHERE x=$1 AND y=?"
ExampleOut ==
    <<"W", "H", "E", "R", "E", " ", "x", "=", "$", "1", " ", "A", "N", "D", " ", "y", "=", "?">>

InitSQL ==
    /\ Idle
    /\ cfg = Config(0, "")
    /\ unit \in {[stage |-> "loop", input |-> q, sql |-> q, buf |-> <<>>, i |-> 0, n |-> 0] :
                 q \in ListsUpTo(SQLChars, MaxSQL) \cup {ExampleSQL}}

\* lines 448-467: an iteration of the loop
ReplaceLoop ==
    /\ unit.stage = "loop"
    /\ Index(unit.sql) # 0
    /\ unit' = ReplaceIter(unit)
    /\ UNCHANGED <<store, now, cfg, pc, args, users, result, trace, seen>>

\* lines 450-452 and 469-470: no '?' is left, the rest is written and returned
ReplaceReturn ==
    /\ unit.stage = "loop"
    /\ Index(unit.sql) = 0
    /\ unit' = [unit EXCEPT !.stage = "done", !.buf = unit.buf \o unit.sql, !.sql = <<>>]
    /\ UNCHANGED <<store, now, cfg, pc, args, users, result, trace, seen>>

NextSQL == ReplaceLoop \/ ReplaceReturn

SpecSQL == InitSQL /\ [][NextSQL]_vars

\* the rewriting as the claim words it, character by character from the left,
\* k being the number of placeholders numbered so far
RECURSIVE Rewritten(_, _)
Rewritten(q, k) ==
    IF q = <<>> THEN <<>>
    ELSE IF Head(q) # "?" THEN <<Head(q)>> \o Rewritten(Tail(q), k)
    ELSE IF Len(q) >= 2 /\ q[2] = "?" THEN <<"?">> \o Rewritten(Tail(Tail(q)), k)
    ELSE <<"$">> \o Decimal(k + 1) \o Rewritten(Tail(q), k + 1)

\* C12: ReplacePlaceholders terminates (every iteration consumes at least one
\* character of the text) and returns the text with each non-doubled '?'
\* replaced by '$k', k counting such placeholders from 1 left to right, each
\* doubled '??' replaced by one '?' without consuming a number, and all other
\* characters kept in order; "WHERE x=? AND y=??" becomes "WHERE x=$1 AND y=?".
C12_Placeholders ==
    /\ unit.stage = "loop" => unit.n + Len(unit.sql) <= Len(unit.input)
    /\ unit.stage = "done" =>
            /\ unit.buf = Rewritten(unit.input, 0)
            /\ unit.n <= Len(unit.input)
            /\ unit.input = ExampleSQL => unit.buf = ExampleOut

C12_Witness ==
    /\ unit.stage = "done"
    /\ unit.input = ExampleSQL
    /\ unit.buf = ExampleOut
    /\ unit.i = 1

(***************************************************************************)
(* LockUser.                                                               *)
(***************************************************************************)
\* caller c makes a LockUser call in this step
LockCall(c) == pc[c] = "idle" /\ pc'[c] = "done" /\ args'[c].op = "LockUser"

\* C13: LockUser on a handler without a lock statement returns success and
\* executes nothing (the store is unchanged); with a lock statement it executes
\* the update with (now, username), returns success only if at least one row
\* was affected, the "no account updated" error when none was, and the store's
\* error when the execution or the affected-rows report fails.
C13_LockUser ==
    [][\A c \in Callers : LockCall(c) =>
        IF cfg.lockSQL = "" THEN
            /\ store' = store
            /\ trace'[c] = <<>>
            /\ result'[c].err = "nil"
        ELSE
            /\ Len(trace'[c]) = 1
            /\ trace'[c][1].op = "Exec"
            /\ trace'[c][1].at = now
            /\ LET fault == trace'[c][1].info
                   n == Cardinality({i \in DOMAIN store :
                                        store[i].username.v = args'[c].username})
               IN  /\ fault = "exec_err" => result'[c].err = "ErrStore" /\ store' = store
                   /\ fault = "affected_err" => result'[c].err = "ErrStore"
                   /\ fault = "none" =>
                        /\ store' = Exec(store, now, args'[c].username)
                        /\ result'[c].err = "nil" <=> n >= 1
                        /\ n = 0 => result'[c].err = "ErrZeroUpdated"
      ]_vars

C13_Witness ==
    \E c \in Callers :
        /\ pc[c] = "done" /\ args[c].op = "LockUser" /\ cfg.lockSQL # ""
        /\ result[c].err = "nil"
        /\ trace[c] # <<>> /\ trace[c][1].info = "none"
        /\ \E i \in DOMAIN store :
            /\ store[i].username.v = args[c].username
            /\ store[i].locked_at = TimeVal(trace[c][1].at)

(***************************************************************************)
(* SpecCreate: CreateUserAuthenticationHandler.  A configuration is nil, a *)
(* value that is not a map, or a map; of a map the model keeps the values  *)
(* under passwordHashAlg and passwordHashKey and whether another key is    *)
(* present.  A value is absent, nil, a string or an int.                   *)
(***************************************************************************)
Absent == [t |-> "absent", v |-> ""]
NilOpt == [t |-> "nil", v |-> ""]
Int42 == [t |-> "int", v |-> "42"]

\* the registry of signing methods, keyed by lower-case name
Registered == {"hmac"}
ToLower(s) == IF s = "HMAC" THEN "hmac" ELSE s
GetSigningMethod(s) == IF ToLower(s) \in Registered THEN ToLower(s) ELSE "nil"
methodDefault == "default"

NoHandler == [signingMethod |-> "nil", secretKey |-> "nil", made |-> FALSE]

\* lines 32-39: the key is read only once an algorithm is given
HashKey(params) ==
    IF params.key.t \in {"absent", "nil"} THEN [err |-> "nil", hashKey |-> ""]
    ELSE IF params.key.t # "string" THEN [err |-> "ErrKeyNotString", hashKey |-> ""]
    ELSE [err |-> "nil", hashKey |-> params.key.v]

\* CreateUserAuthenticationHandler, lines 13-57
CreateUserAuthenticationHandler(config) ==
    IF config.kind = "other" THEN [handler |-> NoHandler, err |-> "ErrNotMap"]
    ELSE IF config.kind = "map" /\ config.alg.t \notin {"absent", "nil"} THEN
        IF config.alg.t # "string" THEN [handler |-> NoHandler, err |-> "ErrAlgNotString"]
        ELSE LET k == HashKey(config) IN
             IF k.err # "nil" THEN [handler |-> NoHandler, err |-> k.err]
             ELSE IF GetSigningMethod(config.alg.v) = "nil"
                  THEN [handler |-> NoHandler, err |-> "ErrAlgUnsupported"]
                  ELSE [handler |-> [signingMethod |-> GetSigningMethod(config.alg.v),
                                     secretKey |-> IF k.hashKey # "" THEN k.hashKey ELSE "nil",
                                     made |-> TRUE],
                        err |-> "nil"]
    ELSE [handler |-> [signingMethod |-> methodDefault, secretKey |-> "nil", made |-> TRUE],
          err |-> "nil"]

AlgValues == {Absent, NilOpt, Str("hmac"), Str("HMAC"), Str("nope"), Str(""), Int42}
KeyValues == {Absent, NilOpt, Str(""), Str("k"), Int42}
CreateConfigs ==
    {[kind |-> "nil", alg |-> Absent, key |-> Absent, extra |-> FALSE],
     [kind |-> "other", alg |-> Absent, key |-> Absent, extra |-> FALSE]}
    \cup {[kind |-> "map", alg |-> a, key |-> k, extra |-> x] :
            a \in AlgValues, k \in KeyValues, x \in BOOLEAN}

InitCreate ==
    /\ Idle
    /\ cfg = Config(0, "")
    /\ unit \in {[stage |-> "config", config |-> c, handler |-> NoHandler, err |-> "nil"] :
                 c \in CreateConfigs}

Create ==
    /\ unit.stage = "config"
    /\ LET r == CreateUserAuthenticationHandler(unit.config) IN
        unit' = [unit EXCEPT !.stage = "created", !.handler = r.handler, !.err = r.err]
    /\ UNCHANGED <<store, now, cfg, pc, args, users, result, trace, seen>>

NextCreate == Create

SpecCreate == InitCreate /\ [][NextCreate]_vars

\* C14: construction returns a usable handler with a nil error or no handler
\* with an error, never both and never neither; it returns an error whenever
\* the configuration is not a mapping, passwordHashAlg names an unregistered
\* algorithm, or passwordHashAlg or passwordHashKey holds a non-string value,
\* whatever other keys are present; a returned handler never carries an
\* unknown algorithm.
C14_FailFast ==
    unit.stage = "created" =>
        /\ unit.handler.made <=> unit.err = "nil"
        /\ unit.handler.made => unit.handler.signingMethod \in Registered \cup {methodDefault}
        /\ unit.config.kind = "other" => unit.err # "nil"
        /\ (unit.config.alg.t = "string" /\ ToLower(unit.config.alg.v) \notin Registered) =>
                unit.err # "nil"
        /\ unit.config.alg.t = "int" => unit.err # "nil"
        /\ unit.config.key.t = "int" => unit.err # "nil"

(***************************************************************************)
(* The store across operations.                                            *)
(***************************************************************************)
\* caller c is inside an Auth call before or after this step
InAuth(c) == args[c].op = "Auth" \/ args'[c].op = "Auth"

\* the rows of the store holding a lock timestamp
LockedRows(tbl) == {i \in DOMAIN tbl : tbl[i].locked_at # LockNil}

\* C15: Auth never mutates the backing store: no step of an Auth call, whatever
\* its input and outcome, changes the store contents, so an expired lock's
\* timestamp is not cleared and a failed password writes no lock; across any
\* sequence of operations the store changes only in a LockUser call (of a
\* handler with a lock statement).
C15_AuthFrame ==
    [][/\ \A c \in Callers : (InAuth(c) /\ ~LockCall(c)) => store' = store
       /\ store' # store => \E c \in Callers : LockCall(c) /\ cfg.lockSQL # ""
      ]_vars

\* an Auth call that went past an expired lock has returned and the lock is
\* still in the store
C15_Witness ==
    \E c \in Callers :
        /\ Returned(c) /\ OneRecord(c) /\ Ran(c, "CanUse")
        /\ StepOf(c, "CanUse").info = "ok"
        /\ Sole(c).lockedAt # 0
        /\ Sole(c).lockedAt + Sole(c).lockedTimeExpires <= StepOf(c, "CanUse").at
        /\ result[c].err = "ErrPasswordNotMatch"
        /\ LockedRows(store) = DOMAIN store
        /\ \A i \in DOMAIN store : store[i].locked_at = LockText("rfc3339", Sole(c).lockedAt)

(***************************************************************************)
(* SpecConc: two callers run Auth and LockUser on the same handlers, their *)
(* steps interleaved in every order.  One account, one address.            *)
(***************************************************************************)
ConcBlocks == {BlockNil, BlockJSON(<<EntryCIDR(V4(1), 0)>>)}
ConcStores == {<<Row("alice", Str("enc_pw"), l, b)>> : l \in StoreLocks, b \in ConcBlocks}
ConcConfigs == {Config(e, "UPDATE") : e \in {0, 1}}
ConcAddresses == {V4(0)}
ConcNames == {"alice"}
ConcPasswords == {"pw", "guess"}
ConcReadFaults == {[kind |-> "none", k |-> 0]}
ConcLockFaults == {"none"}

InitConc ==
    /\ store \in ConcStores
    /\ now = 1
    /\ cfg \in ConcConfigs
    /\ pc = [c \in Callers |-> "idle"]
    /\ args = [c \in Callers |-> NoArgs]
    /\ users = [c \in Callers |-> NoRead]
    /\ result = [c \in Callers |-> NoResult]
    /\ trace = [c \in Callers |-> <<>>]
    /\ seen = [c \in Callers |-> NoSeen]
    /\ unit = NoUnit

NextConc ==
    \/ \E c \in Callers : AuthCallOf(c, ConcAddresses, ConcNames, ConcPasswords)
    \/ \E c \in Callers : AuthReadUserOf(c, ConcReadFaults)
    \/ \E c \in Callers : AuthResume(c)
    \/ \E c \in Callers : LockUserOf(c, ConcNames, ConcLockFaults)
    \/ \E c \in Callers : Return(c)
    \/ Tick

SpecConc == InitConc /\ [][NextConc]_vars

\* the clock value the call of c read (in CanUse), if it read one
ClockRead(c) == IF Ran(c, "CanUse") THEN StepOf(c, "CanUse").at ELSE 0

\* what the call of c returns when run alone on the store contents its lookup read
Alone(c) ==
    AuthResult(cfg, ReadUser(seen[c].store, cfg, args[c].username, seen[c].fault),
               args[c].address, args[c].password, ClockRead(c))

ResultAlone ==
    \A c \in Callers :
        (Returned(c) /\ Ran(c, "ReadUser")) =>
            result[c] = [err |-> Alone(c).err, data |-> Alone(c).data]

\* C16: under every interleaving of concurrent Auth and LockUser calls, the
\* result of each Auth call is the result of running it alone on the store
\* contents its one ReadUser step read and the clock value it read, whatever
\* the other caller did meanwhile; and the handlers' fields never change after
\* construction.
C16_Isolation == []ResultAlone /\ [][cfg' = cfg]_vars

\* an Auth call succeeded on what it had read although the other caller locked
\* the account between its lookup and its usability check
C16_Witness ==
    \E c \in Callers, d \in Callers :
        /\ c # d
        /\ Returned(c) /\ result[c].err = "nil"
        /\ pc[d] = "done" /\ args[d].op = "LockUser" /\ result[d].err = "nil"
        /\ LockedRows(seen[c].store) = {}
        /\ store = Exec(seen[c].store, trace[d][1].at, args[d].username)
        /\ trace[d][1].at < ClockRead(c)
        /\ cfg.lockedTimeExpires = 0

(***************************************************************************)
(* The order of the failures of Auth.                                      *)
(***************************************************************************)
\* the failure conditions of the call of c, on the first record the lookup returned
First(c) == users[c].users[1]
LookupFailed(c) == users[c].err # "nil"
AddressBad(c) == First(c).blockIPList # <<>> /\ ParseIP(args[c].address) = NoIP
AddressBlocked(c) ==
    /\ First(c).blockIPList # <<>>
    /\ \A i \in 1..Len(First(c).blockIPList) :
            ~CheckerContains(First(c).blockIPList[i], ParseIP(args[c].address))
LockHolds(c) ==
    /\ First(c).lockedAt # 0
    /\ First(c).lockedTimeExpires = 0
        \/ ClockRead(c) < First(c).lockedAt + First(c).lockedTimeExpires
SecretEmpty(c) == First(c).password = ""
VerifyOutcome(c) == Verify(args[c].password, First(c).password, cfg.secretKey)

\* the earliest failure of the fixed order among those whose condition holds
EarliestFailure(c) ==
    IF args[c].username = "" THEN "ErrUsernameEmpty"
    ELSE IF LookupFailed(c) THEN users[c].err
    ELSE IF Len(users[c].users) = 0 THEN "ErrUserNotFound"
    ELSE IF Len(users[c].users) > 1 THEN "ErrMutiUsers"
    ELSE IF AddressBad(c) THEN "ErrAddressInvalid"
    ELSE IF AddressBlocked(c) THEN "ErrUserIPBlocked"
    ELSE IF LockHolds(c) THEN "ErrUserLocked"
    ELSE IF SecretEmpty(c) THEN "ErrPasswordEmpty"
    ELSE IF VerifyOutcome(c) = "ErrSignatureInvalid" THEN "ErrPasswordNotMatch"
    ELSE VerifyOutcome(c)

LookupKinds == {"ErrStore", "ErrPasswordNotString", "ErrLockedNotTime",
                "ErrBlockNotString", "ErrBlockNotJSON", "ErrBlockBadRange"}

\* the steps that ran in a call that failed with e are those up to the failing one
StopsAt(c, e) ==
    IF e = "ErrUsernameEmpty" THEN trace[c] = <<>>
    ELSE IF e \in LookupKinds \cup {"ErrUserNotFound", "ErrMutiUsers"}
         THEN Len(trace[c]) = 1 /\ trace[c][1].op = "ReadUser"
    ELSE IF e \in {"ErrAddressInvalid", "ErrUserIPBlocked", "ErrUserLocked", "ErrPasswordEmpty"}
         THEN Len(trace[c]) = 2 /\ trace[c][2].op = "CanUse"
    ELSE Len(trace[c]) = 3 /\ trace[c][3].op = "Verify"

Selected(c) == Query(seen[c].store, args[c].username)

\* the first m selected rows were mapped to records without error
Mapped(c, m) ==
    \A i \in 1..Min(m, Len(Selected(c))) :
        toUser(args[c].username, ScanRow(Selected(c)[i]), cfg).err = "nil"

\* the store raised an error during the lookup of c: by the query, by the scan
\* of a row the loop reached, or at the end of the iteration
StoreErrorOccurred(c) ==
    LET f == seen[c].fault IN
    \/ f.kind = "query_err"
    \/ f.kind = "scan_err" /\ f.k < Len(Selected(c)) /\ Mapped(c, f.k)
    \/ f.kind = "iter_err" /\ Mapped(c, f.k)

\* C18: every store error that occurs during the lookup (query, row scan, end
\* of row iteration) is returned by ReadUser as an error and by Auth as that
\* store error; it is never turned into an empty or partial record sequence,
\* so the call is never answered UserNotFound and never goes on to
\* authenticate.
C18_StoreErrorsReturned ==
    \A c \in Callers :
        (args[c].op = "Auth" /\ Ran(c, "ReadUser") /\ StoreErrorOccurred(c)) =>
            /\ users[c] = [err |-> "ErrStore", users |-> <<>>]
            /\ Returned(c) =>
                    /\ result[c] = [err |-> "ErrStore", data |-> NoData]
                    /\ ~Ran(c, "CanUse")

(***************************************************************************)
(* No authentication bypass.                                               *)
(***************************************************************************)
\* the address of the call of c is inside the allow-list of its record
InAllowList(c) ==
    \E i \in 1..Len(Sole(c).blockIPList) :
        Allows(Sole(c).blockIPList[i], ParseIP(args[c].address))

\* C19: Auth returns claims (a nil error) only if the username was non-empty,
\* the lookup returned exactly one record, the caller address was inside the
\* record's allow-list when it has one, the record was not under a permanent or
\* running lock at the time read, the stored secret was non-empty and Verify
\* succeeded on (password, stored secret, secret key); and the claims returned
\* are that record's data.
C19_NoBypass ==
    \A c \in Callers :
        (Returned(c) /\ result[c].err = "nil") =>
            /\ args[c].username # ""
            /\ OneRecord(c)
            /\ Ran(c, "CanUse")
            /\ Sole(c).blockIPList # <<>> => InAllowList(c)
            /\ ~(/\ Sole(c).lockedAt # 0
                 /\ \/ Sole(c).lockedTimeExpires = 0
                    \/ ClockRead(c) < Sole(c).lockedAt + Sole(c).lockedTimeExpires)
            /\ Sole(c).password # ""
            /\ Verify(args[c].password, Sole(c).password, cfg.secretKey) = "nil"
            /\ result[c].data = Sole(c).data
            /\ Len(Selected(c)) = 1
            /\ result[c].data = ScanRow(Selected(c)[1])

(***************************************************************************)
(* The life of a lock written by LockUser.                                 *)
(***************************************************************************)
\* the LockUser call of d has succeeded and d has not yet taken the result
LockDone(d) ==
    /\ pc[d] = "done" /\ args[d].op = "LockUser" /\ result[d].err = "nil"
    /\ trace[d] # <<>>

\* the lookup of c returned the one record of its user, read from the row
\* carrying the stamp a LockUser call wrote at time t
ReadStamp(c, t) ==
    /\ Returned(c) /\ OneRecord(c)
    /\ Len(Selected(c)) = 1
    /\ Selected(c)[1].locked_at = TimeVal(t)

\* the lock stamped at t holds at the clock value the call of c read
StampHolds(c, t) ==
    \/ cfg.lockedTimeExpires = 0
    \/ ClockRead(c) < t + cfg.lockedTimeExpires

\* C20 as stated: every Auth call whose lookup follows a successful LockUser at
\* t is rejected with the lock error while the lock holds.
C20_AlwaysLockError ==
    \A c \in Callers : \A t \in 1..MaxTime :
        (ReadStamp(c, t) /\ Ran(c, "CanUse") /\ StampHolds(c, t)) =>
            result[c].err = "ErrUserLocked"

\* C20 as amended: after a successful LockUser(u) at t the row of u carries the
\* stamp of that or of a later LockUser; an Auth call whose lookup returns the
\* one record of u with the stamp t never succeeds while the lock holds (expiry 0,
\* or clock read < t + expiry): it is rejected with the lock error, also for the
\* correct password, when the address passes the IP check, and with the IP
\* check's error otherwise; once the clock read is >= t + expiry (expiry > 0)
\* and the address passes, the call succeeds with the correct password although
\* the stamp is still in the store.  A call whose lookup read no lock is not
\* rejected with the lock error, whatever was written since.
C20_LockLifecycle ==
    /\ \A d \in Callers :
        LockDone(d) =>
            \A i \in DOMAIN store :
                store[i].username.v = args[d].username =>
                    \E t \in trace[d][1].at..MaxTime : store[i].locked_at = TimeVal(t)
    /\ \A c \in Callers : \A t \in 1..MaxTime :
        ReadStamp(c, t) =>
            /\ Ran(c, "CanUse") /\ Sole(c).lockedAt = t
            /\ StampHolds(c, t) =>
                    /\ result[c].err # "nil"
                    /\ CanUseIP(Sole(c), args[c].address).ok =>
                            result[c].err = "ErrUserLocked"
                    /\ ~CanUseIP(Sole(c), args[c].address).ok =>
                            result[c].err = CanUseIP(Sole(c), args[c].address).err
            /\ (~StampHolds(c, t) /\ CanUseIP(Sole(c), args[c].address).ok
                    /\ VerifyOutcome(c) = "nil") =>
                    result[c] = [err |-> "nil", data |-> Sole(c).data]
    /\ \A c \in Callers :
        (Returned(c) /\ Ran(c, "ReadUser") /\ LockedRows(seen[c].store) = {}) =>
            result[c].err # "ErrUserLocked"

\* the other caller's LockUser succeeded at t, the Auth call looked the user up
\* afterwards with the correct password and was rejected with the lock error
C20_Witness ==
    \E c \in Callers, d \in Callers :
        /\ c # d /\ LockDone(d)
        /\ ReadStamp(c, trace[d][1].at)
        /\ StampHolds(c, trace[d][1].at)
        /\ VerifyOutcome(c) = "nil"
        /\ result[c].err = "ErrUserLocked"

====
